---- MODULE Spec2Model ----
(***************************************************************************)
(* Scalar Replacement of Aggregates (src/SROA.cpp, lines 95-373).          *)
(*                                                                         *)
(* The function under transformation is an arena: `allocas` is the list of *)
(* stack locations (AllocaInst) and `insts` the list of the instructions   *)
(* that use them, in program order.  An operand is a reference             *)
(* [t, id]: an alloca, the result of an instruction, undef, or some value  *)
(* that is no location of the function ("ext").  The driver RunOnFunction  *)
(* is the state machine Collect -> (AnalyzeStep* -> Filter -> Promote)+.   *)
(***************************************************************************)
EXTENDS Integers, Sequences, FiniteSets, TLC

(***************************************************************************)
(* Bounds of the model.                                                    *)
(***************************************************************************)
\* instructions of a generated input function
MaxInsts == 2

(***************************************************************************)
(* Types.  [k, n, sub]: k the kind, n the bit width (int), the address     *)
(* space (ptr) or the number of elements (struct, array, vector), sub the  *)
(* contained types.                                                        *)
(***************************************************************************)
IntTy(w) == [k |-> "int", n |-> w, sub |-> <<>>]
PtrTo(T) == [k |-> "ptr", n |-> 0, sub |-> <<T>>]
StructOf(fs) == [k |-> "struct", n |-> Len(fs), sub |-> fs]
ArrayOf(cnt, T) == [k |-> "array", n |-> cnt, sub |-> <<T>>]

I8 == IntTy(8)
I32 == IntTy(32)
I8Ptr == PtrTo(I8)

\* Type::isIntOrIntVectorTy, isFPOrFPVectorTy, isPtrOrPtrVectorTy, isPointerTy
isIntOrIntVectorTy(T) == T.k = "int" \/ (T.k = "vector" /\ T.sub[1].k = "int")
isFPOrFPVectorTy(T) == T.k = "fp" \/ (T.k = "vector" /\ T.sub[1].k = "fp")
isPtrOrPtrVectorTy(T) == T.k = "ptr" \/ (T.k = "vector" /\ T.sub[1].k = "ptr")
isPointerTy(T) == T.k = "ptr"
\* isa<CompositeType>, isa<SequentialType>
isCompositeType(T) == T.k \in {"struct", "array", "vector"}
isSequentialType(T) == T.k \in {"array", "vector"}
\* SequentialType::getElementType, CompositeType::getTypeAtIndex
getElementType(T) == T.sub[1]
getTypeAtIndex(T, off) == IF T.k = "struct" THEN T.sub[off + 1] ELSE T.sub[1]

\* DataLayout::getTypeAllocSize, in bytes (no padding: only zero matters)
RECURSIVE getTypeAllocSize(_)
RECURSIVE SumSizes(_, _)
SumSizes(fs, i) == IF i > Len(fs) THEN 0 ELSE getTypeAllocSize(fs[i]) + SumSizes(fs, i + 1)
getTypeAllocSize(T) ==
  CASE T.k = "int" -> T.n \div 8
    [] T.k = "fp" -> 4
    [] T.k = "ptr" -> 8
    [] T.k = "struct" -> SumSizes(T.sub, 1)
    [] OTHER -> T.n * getTypeAllocSize(T.sub[1])

\* nesting depth of a type: 0 for a scalar
RECURSIVE Depth(_)
RECURSIVE MaxDepthOf(_, _)
MaxDepthOf(fs, i) ==
  IF i > Len(fs) THEN 0
  ELSE LET a == Depth(fs[i])
           b == MaxDepthOf(fs, i + 1)
       IN IF a > b THEN a ELSE b
Depth(T) == IF isCompositeType(T) THEN 1 + MaxDepthOf(T.sub, 1) ELSE 0

(***************************************************************************)
(* Program constants.                                                      *)
(***************************************************************************)
\* largest array or vector that AnalyzeAlloca splits (SROA.cpp:255)
MaxSeqElems == 5
\* an index operand that is no ConstantInt
NonConst == 0 - 1

(***************************************************************************)
(* The allocated types of the input functions.                             *)
(***************************************************************************)
PAIR == StructOf(<<I8, I8Ptr>>)
A5 == ArrayOf(MaxSeqElems, I32)
A6 == ArrayOf(MaxSeqElems + 1, I32)
Z0 == ArrayOf(0, I32)
NEST == StructOf(<<PAIR, A6>>)
AllocTypes == {I8, I32, I8Ptr, PAIR, A5, A6, Z0, NEST}

(***************************************************************************)
(* Operands and instructions.                                              *)
(***************************************************************************)
A(n) == [t |-> "alloca", id |-> n]
V(n) == [t |-> "inst", id |-> n]
Undef == [t |-> "undef", id |-> 0]
Ext == [t |-> "ext", id |-> 0]

\* op: load, store, gep, icmp, bitcast, lifetime (llvm.lifetime.start/end),
\* memset (an intrinsic that is no lifetime marker), call (anything else).
\* ptr: the address operand; val: the value operand of a store; idx: the
\* indices of a gep (operands 1, 2, ...); ty: the type loaded or stored, or
\* the pointee type of the result of a gep or bitcast.
Inst(op, ptr, val, vol, idx, ty) ==
  [op |-> op, ptr |-> ptr, val |-> val, vol |-> vol, idx |-> idx, ty |-> ty, live |-> TRUE]
Load(p, T) == Inst("load", p, Ext, FALSE, <<>>, T)
VLoad(p, T) == Inst("load", p, Ext, TRUE, <<>>, T)
Store(p, T) == Inst("store", p, Ext, FALSE, <<>>, T)
VStore(p, T) == Inst("store", p, Ext, TRUE, <<>>, T)
\* store the address v (of pointee type T) into the memory q points to
StoreAddr(v, q, T) == Inst("store", q, v, FALSE, <<>>, PtrTo(T))
Gep(p, idx, T) == Inst("gep", p, Ext, FALSE, idx, T)
ICmp(p) == Inst("icmp", p, Ext, FALSE, <<>>, I8)
BitCast(p) == Inst("bitcast", p, Ext, FALSE, <<>>, I8)
Lifetime(p) == Inst("lifetime", p, Ext, FALSE, <<>>, I8)
MemSet(p) == Inst("memset", p, Ext, FALSE, <<>>, I8)
Call(p) == Inst("call", p, Ext, FALSE, <<>>, I8)

\* the type a gep with indices idx reaches from a pointer to T: the first
\* index steps over whole objects of type T, the others into T
RECURSIVE GepType(_, _, _)
GepType(T, idx, i) ==
  IF i > Len(idx) THEN T
  ELSE GepType(getTypeAtIndex(T, IF idx[i] = NonConst THEN 0 ELSE idx[i]), idx, i + 1)

\* the index lists the verifier accepts on a pointer to T, at most three long
NextIdx(T) ==
  CASE T.k = "struct" -> 0 .. (Len(T.sub) - 1)
    [] T.k = "array" -> {0, 1, NonConst}
    [] OTHER -> {}
GepIdx(T) ==
  {<<0>>, <<1>>}
  \cup {<<0, j>> : j \in NextIdx(T)}
  \cup {<<i, 0>> : i \in {k \in {1, NonConst} : NextIdx(T) # {}}}
  \cup UNION {{<<0, j, k>> : k \in NextIdx(getTypeAtIndex(T, IF j = NonConst THEN 0 ELSE j)) \ {0}}
              : j \in NextIdx(T) \ {NonConst}}

(***************************************************************************)
(* Generated input functions: the well-typed instructions that may follow  *)
(* the instruction list prog of a function whose allocas have types tys.   *)
(***************************************************************************)
\* the pointer values an instruction after prog can use, with their pointee type
PtrValues(tys, prog) ==
  {[ref |-> A(a), ty |-> tys[a]] : a \in 1..Len(tys)}
  \cup {[ref |-> V(i), ty |-> prog[i].ty] : i \in {j \in 1..Len(prog) : prog[j].op \in {"gep", "bitcast"}}}

UsesOf(pv, viaCast) ==
  IF viaCast THEN {Lifetime(pv.ref), Call(pv.ref)}
  ELSE {Load(pv.ref, pv.ty), VLoad(pv.ref, pv.ty), Store(pv.ref, pv.ty), VStore(pv.ref, pv.ty),
        StoreAddr(pv.ref, Ext, pv.ty), ICmp(pv.ref), Call(pv.ref)}
       \cup {Gep(pv.ref, idx, GepType(pv.ty, idx, 2)) : idx \in GepIdx(pv.ty)}
       \cup (IF pv.ty = I8 THEN {Lifetime(pv.ref), MemSet(pv.ref)} ELSE {BitCast(pv.ref)})

Candidates(tys, prog) ==
  UNION {UsesOf(pv, pv.ref.t = "inst" /\ prog[pv.ref.id].op = "bitcast") : pv \in PtrValues(tys, prog)}

(***************************************************************************)
(* State.                                                                  *)
(***************************************************************************)
VARIABLES
  allocas,         \* the locations: [ty, st], st in live, erased, promoted
  insts,           \* the instructions, in program order
  build,           \* [asserts, garbage]: how the LLVM build treats a broken precondition
  Worklist,        \* RunOnFunction: Worklist
  TempWorklist,    \* RunOnFunction: TempWorklist (AnalyzeAlloca's Worklist parameter)
  TryPromotelist,  \* RunOnFunction: TryPromotelist of the current round
  AllocaList,      \* RunOnFunction: AllocaList of the current round
  Changed,         \* RunOnFunction: Changed
  NumReplaced,     \* STATISTIC NumReplaced
  NumPromoted,     \* STATISTIC NumPromoted
  pc,              \* Collecting, Splitting, Promoting, Done, Abort
  origin,          \* history: [parent, field] of each location, parent 0 for an input location
  insts0,          \* history: the instructions of the input function
  analyzed,        \* history: the locations AnalyzeAlloca was called on, in order
  roundEv,         \* history: [erased, created, promoted] of the current round
  roundLog,        \* history: one record per finished round
  PromoteCalls     \* history: [round, batch] of each call of PromoteMemToReg

vars == <<allocas, insts, build, Worklist, TempWorklist, TryPromotelist, AllocaList, Changed,
          NumReplaced, NumPromoted, pc, origin, insts0, analyzed, roundEv, roundLog, PromoteCalls>>

Range(s) == {s[i] : i \in DOMAIN s}
IsLive(a) == allocas[a].st = "live"

(***************************************************************************)
(* The use lists.  V->users() visits the most recently added use first:    *)
(* the users of a value in descending program order.                       *)
(***************************************************************************)
Users(I) == {i \in DOMAIN insts : insts[i].live /\ (insts[i].ptr = I \/ insts[i].val = I)}
SetMax(S) == CHOOSE x \in S : \A y \in S : y <= x
use_empty(I) == Users(I) = {}

\* ValueTracking: onlyUsedByLifetimeMarkers (called at SROA.cpp:150, 194, 202)
onlyUsedByLifetimeMarkers(I) == \A u \in Users(I) : insts[u].op = "lifetime"

\* GetElementPtrInst::hasAllZeroIndices (called at SROA.cpp:189)
hasAllZeroIndices(g) == \A k \in DOMAIN insts[g].idx : insts[g].idx[k] = 0

\* Value::getType of an alloca, of a gep
getType(I) == IF I.t = "alloca" THEN PtrTo(allocas[I.id].ty) ELSE PtrTo(insts[I.id].ty)

(***************************************************************************)
(* User::getOperand(k) of a gep, k >= 1, for an index operand.  Past the   *)
(* last operand an assertion build stops ("getOperand() out of range!"),   *)
(* any other build reads whatever follows the operand list.                *)
(***************************************************************************)
OutOfRange == [oor |-> TRUE, v |-> 0]
getOperand(g, k) ==
  IF k <= Len(insts[g].idx) THEN [oor |-> FALSE, v |-> insts[g].idx[k]]
  ELSE IF build.asserts THEN OutOfRange
  ELSE [oor |-> FALSE, v |-> build.garbage]
isaConstantInt(o) == o.v # NonConst

(***************************************************************************)
(* isPromotable (SROA.cpp:109-163): may the value I, an alloca or a gep,   *)
(* be split?  "true", "false", or "abort" when an operand read stops the   *)
(* run.  The first user that rejects decides.                              *)
(***************************************************************************)
RECURSIVE isPromotable(_)
RECURSIVE isPromotableFrom(_, _)

\* lines 111-117
LooseLoad(I, u) == IF insts[u].vol THEN "false" ELSE "ok"
\* lines 118-124
LooseStore(I, u) == IF insts[u].val = I \/ insts[u].vol THEN "false" ELSE "ok"
\* line 133: is the gep's own use list inspected as well?
LooseDescends(g) == ~isPointerTy(getElementType(getType(V(g))))
\* lines 125-138
LooseGep(I, g) ==
  LET o1 == getOperand(g, 1)
  IN IF o1.oor THEN "abort"
     ELSE IF ~isaConstantInt(o1) THEN "false"
     ELSE LET o2 == getOperand(g, 2)
          IN IF o2.oor THEN "abort"
             ELSE IF ~isaConstantInt(o2) THEN "false"
             ELSE IF LooseDescends(g)
                  THEN LET r == isPromotable(V(g)) IN IF r = "true" THEN "ok" ELSE r
                  ELSE "ok"
\* lines 142-146
LooseICmp(I, u) == IF I.t = "inst" /\ insts[I.id].op = "gep" THEN "ok" ELSE "false"
\* lines 147-153
LooseBitCast(I, u) == IF onlyUsedByLifetimeMarkers(V(u)) THEN "ok" ELSE "false"
\* lines 154-159
LooseIntrinsic(I, u) == IF insts[u].op = "lifetime" THEN "ok" ELSE "false"

LooseUse(I, u) ==
  CASE insts[u].op = "load" -> LooseLoad(I, u)
    [] insts[u].op = "store" -> LooseStore(I, u)
    [] insts[u].op = "gep" -> LooseGep(I, u)
    [] insts[u].op = "icmp" -> LooseICmp(I, u)
    [] insts[u].op = "bitcast" -> LooseBitCast(I, u)
    [] insts[u].op \in {"lifetime", "memset"} -> LooseIntrinsic(I, u)
    [] OTHER -> "false"

isPromotableFrom(I, rest) ==
  IF rest = {} THEN "true"
  ELSE LET u == SetMax(rest)
           r == LooseUse(I, u)
       IN IF r = "ok" THEN isPromotableFrom(I, rest \ {u}) ELSE r

isPromotable(I) == isPromotableFrom(I, Users(I))

(***************************************************************************)
(* isPromotableAlloca (SROA.cpp:166-214): the Promotion Filter.            *)
(***************************************************************************)
\* lines 168-171: the type tested is AI->getType()
StrictType(AI) ==
  LET AITy == getType(A(AI))
  IN isIntOrIntVectorTy(AITy) \/ isFPOrFPVectorTy(AITy) \/ isPtrOrPtrVectorTy(AITy)
\* lines 174-178
StrictLoad(AI, u) == ~insts[u].vol
\* the test of lines 180-181 with its sense inverted
StrictStoreInverted(AI, u) == insts[u].val = A(AI) \/ insts[u].vol
\* lines 179-183
StrictStore(AI, u) == ~(insts[u].val = A(AI) \/ insts[u].vol)
\* lines 184-198
StrictGep(AI, g) ==
  /\ getType(V(g)) = I8Ptr
  /\ hasAllZeroIndices(g)
  /\ onlyUsedByLifetimeMarkers(V(g))
\* lines 199-205
StrictBitCast(AI, u) == onlyUsedByLifetimeMarkers(V(u))
\* lines 206-210
StrictIntrinsic(AI, u) == insts[u].op = "lifetime"

StrictUse(AI, u) ==
  CASE insts[u].op = "load" -> StrictLoad(AI, u)
    [] insts[u].op = "store" -> StrictStore(AI, u)
    [] insts[u].op = "gep" -> StrictGep(AI, u)
    [] insts[u].op = "bitcast" -> StrictBitCast(AI, u)
    [] insts[u].op \in {"lifetime", "memset"} -> StrictIntrinsic(AI, u)
    [] OTHER -> FALSE

isPromotableAlloca(AI) == StrictType(AI) /\ \A u \in Users(A(AI)) : StrictUse(AI, u)

(***************************************************************************)
(* ExtractOffsets (SROA.cpp:226-234): the gep users of AI grouped by the   *)
(* value of operand 2.                                                     *)
(***************************************************************************)
GepUsers(AI) == {u \in Users(A(AI)) : insts[u].op = "gep"}
\* line 230: cast<ConstantInt>(GEP->getOperand(2)), then getZExtValue
OffsetOf(g) ==
  LET o2 == getOperand(g, 2)
  IN IF o2.oor \/ (build.asserts /\ ~isaConstantInt(o2)) THEN [abort |-> TRUE, off |-> 0]
     ELSE [abort |-> FALSE, off |-> IF isaConstantInt(o2) THEN o2.v ELSE 0]
ExtractOffsets(AI) ==
  [abort |-> \E g \in GepUsers(AI) : OffsetOf(g).abort,
   map |-> [off \in {OffsetOf(g).off : g \in GepUsers(AI)} |->
              {g \in GepUsers(AI) : OffsetOf(g).off = off}]]

(***************************************************************************)
(* AnalyzeAlloca (SROA.cpp:236-325).                                       *)
(***************************************************************************)
\* Value::replaceAllUsesWith on the instruction list is
ReplaceAllUsesWith(is, olds, new) ==
  [i \in DOMAIN is |->
     IF is[i].live
     THEN [is[i] EXCEPT !.ptr = IF @ \in olds THEN new ELSE @,
                        !.val = IF @ \in olds THEN new ELSE @]
     ELSE is[i]]
\* Instruction::eraseFromParent on an alloca
EraseAlloca(as, AI) == [as EXCEPT ![AI].st = "erased"]

\* line 247
NotAggregate(T) == ~isCompositeType(T) /\ ~isSequentialType(T)
\* lines 254-258
TooBig(T) == isSequentialType(T) /\ T.n > MaxSeqElems
\* line 263
ZeroSized(T) == getTypeAllocSize(T) = 0
\* lines 292-302: the type of the new alloca for offset off; an index past the
\* last field of a struct is a broken precondition of getTypeAtIndex
FieldTypeValid(T, off) == isSequentialType(T) \/ (isCompositeType(T) /\ off < Len(T.sub))
\* the new alloca given the type of the alloca it is taken from
FieldTypeWhole(T, off) == T
FieldType(T, off) == IF isSequentialType(T) THEN getElementType(T) ELSE getTypeAtIndex(T, off)

\* lines 286-316: one round of the loop per offset, in ascending order.
\* replaceAllUsesWith asserts that the two values have one type.
SetMin(S) == CHOOSE x \in S : \A y \in S : x <= y
RECURSIVE SplitOffsets(_, _, _, _)
SplitOffsets(AI, map, offs, st) ==
  IF offs = {} \/ st.abort THEN st
  ELSE LET Offset == SetMin(offs)
           GEPVect == map[Offset]
           T == st.allocas[AI].ty
           NewAlloca == Len(st.allocas) + 1
           mismatch == \E g \in GEPVect : PtrTo(st.insts[g].ty) # PtrTo(FieldType(T, Offset))
       IN IF ~FieldTypeValid(T, Offset) \/ (build.asserts /\ mismatch)
          THEN [st EXCEPT !.abort = TRUE]
          ELSE SplitOffsets(AI, map, offs \ {Offset},
                 [st EXCEPT !.allocas = Append(@, [ty |-> FieldType(T, Offset), st |-> "live"]),
                            !.origin = Append(@, [parent |-> AI, field |-> Offset]),
                            !.replaced = @ + 1,
                            !.insts = ReplaceAllUsesWith(@, {V(g) : g \in GEPVect}, A(NewAlloca)),
                            !.temp = Append(@, NewAlloca)])

\* the old alloca erased while its geps still point to it
InvalidateOldDangling(AI, map, st) ==
  IF DOMAIN map # {} THEN [st EXCEPT !.allocas = EraseAlloca(@, AI)] ELSE st
\* the broken-up alloca counted in NumReplaced as well
InvalidateOldCounted(AI, map, st) ==
  IF DOMAIN map # {}
  THEN [st EXCEPT !.insts = ReplaceAllUsesWith(@, {A(AI)}, Undef),
                  !.allocas = EraseAlloca(@, AI),
                  !.replaced = @ + 1]
  ELSE st
\* lines 318-322
InvalidateOld(AI, map, st) ==
  IF DOMAIN map # {}
  THEN [st EXCEPT !.insts = ReplaceAllUsesWith(@, {A(AI)}, Undef),
                  !.allocas = EraseAlloca(@, AI)]
  ELSE st

\* a draft of the pass skipped an alloca without uses: return false
SkipUnused(st, AI) == st
\* lines 240-243: an alloca without uses is erased
EraseUnused(st, AI) == [st EXCEPT !.allocas = EraseAlloca(@, AI), !.ret = TRUE]
\* the declined alloca pushed on the list of the next round instead
DeclineIntoWorklist(st, AI) == [st EXCEPT !.temp = Append(@, AI)]
\* the declined alloca counted in NumReplaced
DeclineCounted(st, AI) == [st EXCEPT !.tryp = Append(@, AI), !.replaced = @ + 1]
\* lines 249-250, 265-266, 272-273: TryPromotelist.push_back(AI); return false
Decline(st, AI) == [st EXCEPT !.tryp = Append(@, AI)]
\* the oversized alloca pushed on the list of the next round
LeaveAloneRequeued(st, AI) == [st EXCEPT !.temp = Append(@, AI)]
\* lines 256-257: return false
LeaveAlone(st, AI) == st

AnalyzeAlloca(AI) ==
  LET T == allocas[AI].ty
      st0 == [abort |-> FALSE, ret |-> FALSE, allocas |-> allocas, insts |-> insts,
              origin |-> origin, temp |-> TempWorklist, tryp |-> TryPromotelist,
              replaced |-> NumReplaced]
  IN IF use_empty(A(AI)) THEN EraseUnused(st0, AI)
     ELSE IF NotAggregate(T) THEN Decline(st0, AI)
     ELSE IF TooBig(T) THEN LeaveAlone(st0, AI)
     ELSE IF ZeroSized(T) THEN Decline(st0, AI)
     ELSE LET p == isPromotable(A(AI))
          IN IF p = "abort" THEN [st0 EXCEPT !.abort = TRUE]
             ELSE IF p = "false" THEN Decline(st0, AI)
             ELSE LET ex == ExtractOffsets(AI)
                  IN IF ex.abort THEN [st0 EXCEPT !.abort = TRUE]
                     ELSE [InvalidateOld(AI, ex.map, SplitOffsets(AI, ex.map, DOMAIN ex.map, st0))
                             EXCEPT !.ret = TRUE]

(***************************************************************************)
(* PromoteMemToReg (llvm/Transforms/Utils/PromoteMemToReg.h, called at     *)
(* SROA.cpp:104): the allocas of the batch leave memory, and with them     *)
(* every load, store, lifetime marker and cast that goes through them.     *)
(***************************************************************************)
RECURSIVE ThroughBatch(_, _, _, _)
ThroughBatch(is, batch, i, dead) ==
  IF i > Len(is) THEN dead
  ELSE ThroughBatch(is, batch, i + 1,
         IF is[i].live /\ (is[i].ptr \in {A(a) : a \in batch} \cup {V(d) : d \in dead})
         THEN dead \cup {i} ELSE dead)
PromoteMemToReg(st, batch) ==
  LET gone == ThroughBatch(st.insts, Range(batch), 1, {})
  IN [allocas |-> [a \in DOMAIN st.allocas |->
                     IF a \in Range(batch) THEN [st.allocas[a] EXCEPT !.st = "promoted"]
                     ELSE st.allocas[a]],
      insts |-> [i \in DOMAIN st.insts |->
                   IF i \in gone THEN [st.insts[i] EXCEPT !.live = FALSE] ELSE st.insts[i]]]

\* one call of PromoteMemToReg per alloca instead of one per round
PromoteOneByOne(List) ==
  LET after == PromoteMemToReg([allocas |-> allocas, insts |-> insts], List)
  IN [ret |-> List # <<>>, promoted |-> NumPromoted + Len(List), allocas |-> after.allocas,
      insts |-> after.insts,
      calls |-> PromoteCalls \o [k \in 1..Len(List) |->
                                   [round |-> Len(roundLog) + 1, batch |-> <<List[k]>>]]]
\* PromoteAllocas (SROA.cpp:99-106)
PromoteAllocas(List) ==
  IF List = <<>>
  THEN [ret |-> FALSE, promoted |-> NumPromoted, allocas |-> allocas, insts |-> insts,
        calls |-> PromoteCalls]
  ELSE LET after == PromoteMemToReg([allocas |-> allocas, insts |-> insts], List)
       IN [ret |-> TRUE, promoted |-> NumPromoted + Len(List), allocas |-> after.allocas,
           insts |-> after.insts,
           calls |-> Append(PromoteCalls, [round |-> Len(roundLog) + 1, batch |-> List])]

(***************************************************************************)
(* RunOnFunction (SROA.cpp:327-373).                                       *)
(***************************************************************************)
\* lines 332-336: the allocas of the entry block, in block order
Collect ==
  /\ pc = "Collecting"
  /\ Worklist' = [i \in 1..Len(allocas) |-> i]
  /\ pc' = "Splitting"
  /\ UNCHANGED <<allocas, insts, build, TempWorklist, TryPromotelist, AllocaList, Changed,
                 NumReplaced, NumPromoted, origin, insts0, analyzed, roundEv, roundLog,
                 PromoteCalls>>

\* lines 344-345: one iteration of the inner loop (the result of the call is
\* bound by \E over a singleton, so that it is computed once for the step)
AnalyzeStep ==
  /\ pc = "Splitting"
  /\ Worklist # <<>>
  /\ \E AI \in {Worklist[Len(Worklist)]} : \E r \in {AnalyzeAlloca(AI)} :
        IF r.abort
        THEN /\ pc' = "Abort"
             /\ UNCHANGED <<allocas, insts, Worklist, TempWorklist, TryPromotelist, Changed,
                            NumReplaced, origin, analyzed, roundEv>>
        ELSE /\ pc' = pc
             /\ Worklist' = SubSeq(Worklist, 1, Len(Worklist) - 1)
             /\ allocas' = r.allocas
             /\ insts' = r.insts
             /\ origin' = r.origin
             /\ TempWorklist' = r.temp
             /\ TryPromotelist' = r.tryp
             /\ NumReplaced' = r.replaced
             /\ Changed' = (Changed \/ r.ret)
             /\ analyzed' = Append(analyzed, AI)
             /\ roundEv' = [roundEv EXCEPT
                              !.erased = @ + (IF r.allocas[AI].st = "erased" THEN 1 ELSE 0),
                              !.created = @ + (Len(r.allocas) - Len(allocas))]
  /\ UNCHANGED <<build, AllocaList, NumPromoted, insts0, roundLog, PromoteCalls>>

\* line 348: TryPromotelist.append(TempWorklist.begin(), TempWorklist.end())
AppendTemp(tryp, temp) == tryp \o temp

\* lines 348-358: the Promotion Filter over TryPromotelist followed by TempWorklist
Filter ==
  /\ pc = "Splitting"
  /\ Worklist = <<>>
  /\ TryPromotelist' = AppendTemp(TryPromotelist, TempWorklist)
  /\ AllocaList' = SelectSeq(TryPromotelist', isPromotableAlloca)
  /\ pc' = "Promoting"
  /\ UNCHANGED <<allocas, insts, build, Worklist, TempWorklist, Changed, NumReplaced,
                 NumPromoted, origin, insts0, analyzed, roundEv, roundLog, PromoteCalls>>

\* the promoted allocas left in the list of the next round
KeepPromoted(temp, list) == temp
\* lines 362-367: find, then erase, each promoted alloca in TempWorklist
RemovePromoted(temp, list) == SelectSeq(temp, LAMBDA a : a \notin Range(list))

\* lines 359-370: the batch is promoted and the next round is set up
Promote ==
  /\ pc = "Promoting"
  /\ \E r \in {PromoteAllocas(AllocaList)} : \E next \in {RemovePromoted(TempWorklist, AllocaList)} :
        /\ Changed' = (Changed \/ r.ret)
        /\ NumPromoted' = r.promoted
        /\ allocas' = r.allocas
        /\ insts' = r.insts
        /\ PromoteCalls' = r.calls
        /\ Worklist' = next
        /\ roundLog' = Append(roundLog, [erased |-> roundEv.erased, created |-> roundEv.created,
                                         promoted |-> Len(AllocaList), processed |-> Len(analyzed),
                                         next |-> Len(next)])
        /\ pc' = IF next = <<>> THEN "Done" ELSE "Splitting"
  /\ TempWorklist' = <<>>
  /\ TryPromotelist' = <<>>
  /\ AllocaList' = <<>>
  /\ roundEv' = [erased |-> 0, created |-> 0]
  /\ UNCHANGED <<build, NumReplaced, origin, insts0, analyzed>>

Next == Collect \/ AnalyzeStep \/ Filter \/ Promote

(***************************************************************************)
(* The input functions and the builds.                                     *)
(***************************************************************************)
\* an assertion build; a build without assertions in which the word read
\* past a gep's operands is no ConstantInt, and one in which it is the
\* ConstantInt 0
Builds == {[asserts |-> TRUE, garbage |-> NonConst],
           [asserts |-> FALSE, garbage |-> NonConst],
           [asserts |-> FALSE, garbage |-> 0]}

InitWith(tys, prog, b) ==
  /\ allocas = [i \in 1..Len(tys) |-> [ty |-> tys[i], st |-> "live"]]
  /\ origin = [i \in 1..Len(tys) |-> [parent |-> 0, field |-> 0]]
  /\ insts = prog
  /\ insts0 = prog
  /\ build = b
  /\ Worklist = <<>>
  /\ TempWorklist = <<>>
  /\ TryPromotelist = <<>>
  /\ AllocaList = <<>>
  /\ Changed = FALSE
  /\ NumReplaced = 0
  /\ NumPromoted = 0
  /\ pc = "Collecting"
  /\ analyzed = <<>>
  /\ roundEv = [erased |-> 0, created |-> 0]
  /\ roundLog = <<>>
  /\ PromoteCalls = <<>>

\* every well-typed function of at most n more instructions after prog
RECURSIVE InitGenerated(_, _, _, _)
InitGenerated(tys, prog, n, b) ==
  \/ InitWith(tys, prog, b)
  \/ /\ n > 0
     /\ \E i \in Candidates(tys, prog) : InitGenerated(tys, Append(prog, i), n - 1, b)

(***************************************************************************)
(* Larger input functions: the scenarios of the specification and the      *)
(* shapes that need several allocas, several rounds or more instructions.  *)
(***************************************************************************)
Fn(tys, prog) == [tys |-> tys, prog |-> prog]
\* a two-field aggregate, one store and one load per field
ScnTwoFields ==
  Fn(<<PAIR>>, <<Gep(A(1), <<0, 0>>, I8), Store(V(1), I8), Load(V(1), I8),
                 Gep(A(1), <<0, 1>>, I8Ptr), Store(V(4), I8Ptr), Load(V(4), I8Ptr)>>)
\* a sequence of seven elements
ScnSevenElems ==
  Fn(<<ArrayOf(7, I32)>>, <<Gep(A(1), <<0, 1>>, I32), Store(V(1), I32), Load(V(1), I32)>>)
\* a scalar with one store and one load
ScnScalar == Fn(<<I32>>, <<Store(A(1), I32), Load(A(1), I32)>>)
\* a scalar with a volatile load among its uses
ScnVolatile == Fn(<<I32>>, <<Store(A(1), I32), VLoad(A(1), I32), Load(A(1), I32)>>)
\* the address of one scalar is stored into another
ScnEscape ==
  Fn(<<I8, I8Ptr>>, <<StoreAddr(A(1), A(2), I8), Load(A(1), I8), Load(A(2), I8Ptr)>>)
\* the address of a pointer-typed field is stored into a scalar
ScnEscapeField ==
  Fn(<<PAIR, PtrTo(I8Ptr)>>, <<Gep(A(1), <<0, 1>>, I8Ptr), StoreAddr(V(1), A(2), I8Ptr),
                               Load(V(1), I8Ptr)>>)
\* a struct in a struct, reached through two geps of two indices each, beside
\* a scalar and a big array
ScnNested ==
  Fn(<<NEST, I32, A6>>,
     <<Gep(A(1), <<0, 0>>, PAIR), Gep(V(1), <<0, 0>>, I8), Store(V(2), I8), Load(V(2), I8),
       Gep(V(1), <<0, 1>>, I8Ptr), Load(V(5), I8Ptr), Store(A(2), I32), Load(A(2), I32),
       Load(A(3), A6)>>)
\* three levels of nesting
ScnDeep ==
  Fn(<<StructOf(<<NEST>>)>>, <<Gep(A(1), <<0, 0>>, NEST), Gep(V(1), <<0, 0>>, PAIR),
                               Gep(V(2), <<0, 0>>, I8), Store(V(3), I8), Load(V(3), I8)>>)
\* a field written through a gep and the whole aggregate read back
ScnWhole ==
  Fn(<<PAIR>>, <<Gep(A(1), <<0, 0>>, I8), Store(V(1), I8), Load(A(1), PAIR)>>)
\* two geps that select the same field
ScnShared ==
  Fn(<<PAIR>>, <<Gep(A(1), <<0, 0>>, I8), Store(V(1), I8), Gep(A(1), <<0, 0>>, I8),
                 Load(V(3), I8)>>)
\* a field of a nested struct written and read through geps of three indices
ScnThreeIdx ==
  Fn(<<NEST>>, <<Gep(A(1), <<0, 0, 0>>, I8), Store(V(1), I8), Gep(A(1), <<0, 0, 1>>, I8Ptr),
                 Store(V(3), I8Ptr), Load(V(1), I8)>>)
\* several allocas: a scalar, an aggregate, a big array, an unused one
ScnSeveral ==
  Fn(<<I32, PAIR, A6, I8>>, <<Store(A(1), I32), Load(A(1), I32), Gep(A(2), <<0, 1>>, I8Ptr),
                              Load(V(3), I8Ptr), Load(A(3), A6)>>)
\* both fields of an aggregate are compared through their addresses
ScnCompared ==
  Fn(<<PAIR>>, <<Gep(A(1), <<0, 0>>, I8), ICmp(V(1)), Gep(A(1), <<0, 1>>, I8Ptr), ICmp(V(3))>>)
\* the address of a field of a struct in a struct is compared
ScnNestedCompared ==
  Fn(<<NEST>>, <<Gep(A(1), <<0, 0>>, PAIR), Gep(V(1), <<0, 0>>, I8), ICmp(V(2))>>)
Scenarios == {ScnTwoFields, ScnSevenElems, ScnScalar, ScnVolatile, ScnEscape, ScnEscapeField,
              ScnNested, ScnDeep, ScnWhole, ScnShared, ScnThreeIdx, ScnSeveral, ScnCompared,
              ScnNestedCompared}

Init ==
  \E b \in Builds :
    \/ \E T \in AllocTypes : InitGenerated(<<T>>, <<>>, MaxInsts, b)
    \/ \E fn \in Scenarios : InitWith(fn.tys, fn.prog, b)

Spec == Init /\ [][Next]_vars

FairSpec == Spec /\ WF_vars(Next)

(***************************************************************************)
(* Memory.  One cell per scalar field: a cell is [root, path], the input   *)
(* location it belongs to and the indices that lead to it.  The            *)
(* instructions run in program order.                                      *)
(***************************************************************************)
NoAddr == [root |-> 0, path |-> <<>>, def |-> FALSE]
\* the address a pointer operand denotes in the instruction list is; not
\* defined when it leaves the object or depends on a run-time index
RECURSIVE Addr(_, _)
Addr(is, ref) ==
  CASE ref.t = "alloca" -> [root |-> ref.id, path |-> <<>>, def |-> TRUE]
    [] ref.t = "inst" /\ is[ref.id].op = "gep" ->
         LET b == Addr(is, is[ref.id].ptr)
             idx == is[ref.id].idx
         IN IF b.def /\ idx[1] = 0 /\ \A k \in DOMAIN idx : idx[k] # NonConst
            THEN [b EXCEPT !.path = @ \o Tail(idx)]
            ELSE NoAddr
    [] ref.t = "inst" /\ is[ref.id].op = "bitcast" -> Addr(is, is[ref.id].ptr)
    [] OTHER -> NoAddr

\* the place of a location in the input location it was split from
RECURSIVE Home(_)
Home(a) ==
  IF origin[a].parent = 0 THEN [root |-> a, path |-> <<>>]
  ELSE LET h == Home(origin[a].parent)
       IN [h EXCEPT !.path = Append(@, origin[a].field)]

\* the type found in T along path; Bad when the path leaves T
Bad == [k |-> "bad", n |-> 0, sub |-> <<>>]
RECURSIVE TypeAt(_, _)
TypeAt(T, path) ==
  IF path = <<>> THEN T
  ELSE IF T.k = "struct" /\ Head(path) < Len(T.sub) THEN TypeAt(T.sub[Head(path) + 1], Tail(path))
  ELSE IF T.k = "array" /\ Head(path) < T.n THEN TypeAt(T.sub[1], Tail(path))
  ELSE Bad

\* the paths of the scalar fields of T
RECURSIVE LeafPaths(_)
LeafPaths(T) ==
  CASE T.k = "struct" -> UNION {{<<k - 1>> \o l : l \in LeafPaths(T.sub[k])} : k \in 1..Len(T.sub)}
    [] T.k = "array" -> UNION {{<<k>> \o l : l \in LeafPaths(T.sub[1])} : k \in 0..(T.n - 1)}
    [] OTHER -> {<<>>}

\* the cells the load or store i touches in the input function
OrigDefined(i) ==
  LET a == Addr(insts0, insts0[i].ptr)
  IN a.def /\ TypeAt(allocas[a.root].ty, a.path) = insts0[i].ty
OrigCells(i) ==
  LET a == Addr(insts0, insts0[i].ptr)
  IN {[root |-> a.root, path |-> a.path \o l] : l \in LeafPaths(insts0[i].ty)}
\* and in the function as it is now, as cells of the input locations
CurDefined(i) ==
  LET a == Addr(insts, insts[i].ptr)
  IN a.def /\ TypeAt(allocas[a.root].ty, a.path) = insts[i].ty
CurCells(i) ==
  LET a == Addr(insts, insts[i].ptr)
      h == Home(a.root)
  IN {[root |-> h.root, path |-> h.path \o a.path \o l] : l \in LeafPaths(insts[i].ty)}

\* the store whose value a load finds in a cell: the last of the stores w
\* that write the cell before the load, 0 when there is none
LastStore(w) == IF w = {} THEN 0 ELSE SetMax(w)
OrigReads(i) ==
  LET writers == {j \in DOMAIN insts0 : insts0[j].op = "store" /\ OrigDefined(j)}
  IN [c \in OrigCells(i) |-> LastStore({j \in writers : j < i /\ c \in OrigCells(j)})]
CurReads(i) ==
  LET writers == {j \in DOMAIN insts : insts[j].op = "store" /\ insts[j].live /\ CurDefined(j)}
  IN [c \in CurCells(i) |-> LastStore({j \in writers : j < i /\ c \in CurCells(j)})]

\* the access i does now what it did in the input function
SameAccess(i) ==
  OrigDefined(i) =>
    /\ CurDefined(i)
    /\ CurCells(i) = OrigCells(i)
    /\ insts[i].op = "load" => CurReads(i) = OrigReads(i)

(***************************************************************************)
(* Properties.                                                             *)
(***************************************************************************)
Last(s) == s[Len(s)]
\* AnalyzeAlloca is about to be called on a, and returns
Analyzing(a) ==
  /\ pc = "Splitting"
  /\ Worklist # <<>>
  /\ a = Last(Worklist)
  /\ pc' = "Splitting"
\* the addresses derived from location a by address computations
RECURSIVE DerivedFrom(_, _, _)
DerivedFrom(a, i, acc) ==
  IF i > Len(insts) THEN acc
  ELSE DerivedFrom(a, i + 1,
         IF insts[i].live /\ insts[i].op = "gep" /\ insts[i].ptr \in acc
         THEN acc \cup {V(i)} ELSE acc)
Derived(a) == DerivedFrom(a, 1, {A(a)})
\* a volatile access to a or to an address derived from it, or a store of a's address
UnsafeUse(a) ==
  \E u \in DOMAIN insts :
    /\ insts[u].live
    /\ \/ insts[u].op \in {"load", "store"} /\ insts[u].vol /\ insts[u].ptr \in Derived(a)
       \/ insts[u].op = "store" /\ insts[u].val = A(a)
IsScalar(T) == T.k \in {"int", "fp", "ptr"}

\* C1: every run of RunOnFunction reaches Done: the loop ends a round with
\* an empty Worklist and returns.
C1_Termination == <>(pc = "Done")

\* C2: a location with a volatile load or store among its uses (direct, or
\* through an address computation), or with a store of its own address, is
\* not split by AnalyzeAlloca (no location is created, it is not erased) and
\* is in no batch given to PromoteMemToReg.
C2_ConservativeRejection ==
  /\ [][\A a \in DOMAIN allocas : (Analyzing(a) /\ UnsafeUse(a)) => allocas' = allocas]_vars
  /\ [](pc = "Promoting" => \A a \in Range(AllocaList) : ~UnsafeUse(a))

\* C3: every location in the batch that RunOnFunction gives to
\* PromoteAllocas has a scalar allocated type (integer, floating point or
\* pointer), never a struct, an array or a vector.
C3_TypeBar == pc = "Promoting" => \A a \in Range(AllocaList) : IsScalar(allocas[a].ty)

\* C4: after any split every load and store left in the function reads or
\* writes the cells it read or wrote in the input function, and every load
\* finds in each cell the value of the same store.
C4_Soundness ==
  \A i \in DOMAIN insts : (insts[i].live /\ insts[i].op \in {"load", "store"}) => SameAccess(i)

\* C5: every finished round erased a location, created a location, promoted
\* a location, or left the Worklist of the next round empty; and every
\* location the Splitter created has a type nested strictly inside its
\* parent's.
C5_Progress ==
  /\ \A k \in DOMAIN roundLog :
       \/ roundLog[k].erased > 0
       \/ roundLog[k].created > 0
       \/ roundLog[k].promoted > 0
       \/ roundLog[k].next = 0
  /\ \A a \in DOMAIN allocas :
       origin[a].parent # 0 => Depth(allocas[a].ty) < Depth(allocas[origin[a].parent].ty)
\* a round that created locations and is followed by another round
C5_Witness ==
  \E k \in DOMAIN roundLog : roundLog[k].next > 0 /\ roundLog[k].created > 0 /\ pc = "Done"

NoDuplicates(s) == \A i, j \in DOMAIN s : i # j => s[i] # s[j]
\* C6: PromoteMemToReg is called at most once in a round and never with an
\* empty batch; the batch is the list of the locations of TryPromotelist
\* followed by TempWorklist that pass isPromotableAlloca; no location is
\* twice in a batch, and none is in the batches of two calls.
C6_Batched ==
  /\ [](/\ \A i, j \in DOMAIN PromoteCalls :
             /\ PromoteCalls[i].batch # <<>>
             /\ NoDuplicates(PromoteCalls[i].batch)
             /\ i < j => /\ PromoteCalls[i].round < PromoteCalls[j].round
                         /\ Range(PromoteCalls[i].batch) \cap Range(PromoteCalls[j].batch) = {}
        /\ pc = "Promoting" =>
             /\ Range(TempWorklist) \subseteq Range(TryPromotelist)
             /\ AllocaList = SelectSeq(TryPromotelist, isPromotableAlloca))
  /\ [][/\ pc = "Splitting" /\ pc' = "Promoting" =>
             TryPromotelist' = TryPromotelist \o TempWorklist
        /\ pc = "Promoting" =>
             PromoteCalls' = IF AllocaList = <<>> THEN PromoteCalls
                             ELSE Append(PromoteCalls, [round |-> Len(roundLog) + 1,
                                                        batch |-> AllocaList])]_vars
\* two rounds have called PromoteMemToReg, one of them with two locations
C6_Witness ==
  /\ Len(PromoteCalls) >= 2
  /\ \E i \in DOMAIN PromoteCalls : Len(PromoteCalls[i].batch) >= 2

\* the four states of C7, for location a
AwaitsClassification(a) == a \in Range(Worklist) \cup Range(TempWorklist)
AwaitsPromotionCheck(a) == a \in Range(TryPromotelist)
PoolStates(a) ==
  {s \in {"classification", "promotion check", "erased", "promoted"} :
     \/ s = "classification" /\ AwaitsClassification(a)
     \/ s = "promotion check" /\ AwaitsPromotionCheck(a)
     \/ s = "erased" /\ allocas[a].st = "erased"
     \/ s = "promoted" /\ allocas[a].st = "promoted"}
Splittable(a) ==
  LET r == AnalyzeAlloca(a) IN ~r.abort /\ (r.allocas # allocas \/ r.insts # insts)
\* C8: when RunOnFunction has returned, no live location passes
\* isPromotableAlloca and none would be changed by AnalyzeAlloca.
C8_FixpointAtDone ==
  pc = "Done" => \A a \in DOMAIN allocas : IsLive(a) => (~isPromotableAlloca(a) /\ ~Splittable(a))

\* C9: AnalyzeAlloca on a location with a use whose type is an array or
\* vector of more than 5 elements returns false and changes neither a
\* location, nor an instruction, nor a statistic; and no such location is
\* in a batch given to PromoteMemToReg.
OversizedInUse(a) ==
  /\ isSequentialType(allocas[a].ty)
  /\ allocas[a].ty.n > MaxSeqElems
  /\ ~use_empty(A(a))
C9_OversizedLeftAlone ==
  /\ [][\A a \in DOMAIN allocas : (Analyzing(a) /\ OversizedInUse(a)) =>
          /\ Changed' = Changed
          /\ UNCHANGED <<allocas, insts, NumReplaced, NumPromoted>>]_vars
  /\ [](pc = "Promoting" => \A a \in Range(AllocaList) : ~OversizedInUse(a))

\* C10: AnalyzeAlloca on a location without uses, of whatever type, erases
\* it and returns true (Changed becomes true); it creates no location, puts
\* the location in no list and changes no statistic.
C10_ZeroUseErased ==
  [][\A a \in DOMAIN allocas :
       (pc = "Splitting" /\ Worklist # <<>> /\ a = Last(Worklist) /\ use_empty(A(a))) =>
         /\ pc' = "Splitting"
         /\ allocas' = [allocas EXCEPT ![a].st = "erased"]
         /\ Changed'
         /\ a \notin Range(Worklist') \cup Range(TempWorklist') \cup Range(TryPromotelist')
         /\ UNCHANGED <<insts, TempWorklist, TryPromotelist, NumReplaced, NumPromoted>>]_vars
\* an input location of an oversized array type was erased for want of uses
C10_Witness ==
  \E a \in DOMAIN allocas :
    /\ TooBig(allocas[a].ty)
    /\ origin[a].parent = 0
    /\ allocas[a].st = "erased"
    /\ Changed
    /\ NumReplaced = 0 /\ NumPromoted = 0

\* every use of a is a non-volatile load, or a non-volatile store of something
\* else than a's address
OnlyPlainAccesses(a) ==
  \A u \in Users(A(a)) :
    /\ insts[u].op \in {"load", "store"}
    /\ ~insts[u].vol
    /\ insts[u].val # A(a)
PlainScalar(a) == IsScalar(allocas[a].ty) /\ OnlyPlainAccesses(a)
\* what C11 says of the step that analyses a, and of the rest of a's round
DeclinedUnsplit(a) ==
  /\ ~AnalyzeAlloca(a).ret
  /\ UNCHANGED <<allocas, insts, NumReplaced, TempWorklist>>
  /\ TryPromotelist' = Append(TryPromotelist, a)
PromotedInRound(a) ==
  /\ (pc = "Splitting" /\ pc' = "Splitting") => PlainScalar(a)'
  /\ (pc = "Splitting" /\ pc' = "Promoting") =>
       Cardinality({k \in DOMAIN AllocaList' : AllocaList'[k] = a}) = 1
  /\ (pc = "Promoting" /\ a \in Range(AllocaList)) =>
       /\ allocas'[a].st = "promoted"
       /\ NumPromoted' = NumPromoted + Len(AllocaList)
       /\ PromoteCalls' = Append(PromoteCalls, [round |-> Len(roundLog) + 1, batch |-> AllocaList])
InputIs(fn) ==
  /\ insts0 = fn.prog
  /\ Len(allocas) >= Len(fn.tys)
  /\ \A a \in DOMAIN allocas : origin[a].parent = 0 <=> a <= Len(fn.tys)
  /\ \A a \in 1..Len(fn.tys) : allocas[a].ty = fn.tys[a]
\* the locations that are promoted
Promoted(as) == {a \in DOMAIN as : as[a].st = "promoted"}
StructuralChange ==
  \E a \in DOMAIN allocas : allocas[a].st \in {"erased", "promoted"} \/ origin[a].parent # 0
\* C13: AnalyzeAlloca returns true exactly when it erases the location or
\* creates a location; and RunOnFunction returns true exactly when a location
\* was erased, split or promoted during the run.
C13_ChangedTruthful ==
  /\ [][\A a \in DOMAIN allocas : Analyzing(a) => (AnalyzeAlloca(a).ret <=> allocas' # allocas)]_vars
  /\ [](pc = "Done" => (Changed <=> StructuralChange))

\* the gep g on location a carries a constant field index as operand 2, inside
\* a's type, and its result has the type of that field
WellFormedFieldGep(a, g) ==
  /\ Len(insts[g].idx) >= 2
  /\ insts[g].idx[2] # NonConst
  /\ FieldTypeValid(allocas[a].ty, insts[g].idx[2])
  /\ insts[g].ty = FieldType(allocas[a].ty, insts[g].idx[2])
\* C14: no run stops in an abort; and whenever AnalyzeAlloca gets as far as
\* ExtractOffsets (it returns true for a location that has uses), every gep
\* on the location has a constant field-index operand inside the type, of
\* the type of the new location its uses are rewired to.
C14_GracefulDegradation ==
  /\ [](pc # "Abort")
  /\ [][\A a \in DOMAIN allocas :
          (Analyzing(a) /\ ~use_empty(A(a)) /\ AnalyzeAlloca(a).ret) =>
            \A g \in GepUsers(a) : WellFormedFieldGep(a, g)]_vars

\* how often a is in the list s
Count(s, a) == Cardinality({k \in DOMAIN s : s[k] = a})
\* C16: when AnalyzeAlloca returns false for a location that has a use (its
\* type is no aggregate, or a sequence of more than 5 elements, or of size
\* zero, or isPromotable rejects it), the location is appended to
\* TryPromotelist, where it is once; and it is still there, once, when the
\* Promotion Filter of the round runs over the list.
C16_DeclinedForwarded ==
  [][\A a \in DOMAIN allocas :
       /\ (Analyzing(a) /\ ~use_empty(A(a)) /\ ~AnalyzeAlloca(a).ret) =>
            /\ TryPromotelist' = Append(TryPromotelist, a)
            /\ Count(TryPromotelist', a) = 1
       /\ (pc = "Splitting" /\ pc' \in {"Splitting", "Promoting"} /\ Count(TryPromotelist, a) = 1) =>
            Count(TryPromotelist', a) = 1]_vars

\* the step is a call of AnalyzeAlloca that splits a: a had uses and is erased
SplitsAndErases(a) == Analyzing(a) /\ ~use_empty(A(a)) /\ allocas'[a].st = "erased"
\* C17: when AnalyzeAlloca replaces what is left of the uses of a location by
\* undef and erases it, every user of the location is a lifetime marker, a
\* cast used by lifetime markers only, or a gep that has no user left after
\* the step; and after the step no load or store goes through undef or
\* through the erased location.
C17_UndefLegal ==
  [][\A a \in DOMAIN allocas : SplitsAndErases(a) =>
       /\ \A u \in Users(A(a)) :
            \/ insts[u].op = "lifetime"
            \/ insts[u].op = "bitcast" /\ onlyUsedByLifetimeMarkers(V(u))
            \/ insts[u].op = "gep" /\ use_empty(V(u))'
       /\ \A i \in DOMAIN insts' :
            (insts'[i].live /\ insts'[i].op \in {"load", "store"}) => insts'[i].ptr \notin {Undef, A(a)}]_vars

\* the constant field indices carried, as operand 2, by the geps on a
FieldsUsed(a) ==
  {insts[g].idx[2] : g \in {h \in GepUsers(a) : Len(insts[h].idx) >= 2 /\ insts[h].idx[2] # NonConst}}
\* the place of field f among the fields used, in ascending order
Rank(a, f) == Cardinality({x \in FieldsUsed(a) : x <= f})
\* the step is a call of AnalyzeAlloca that gets to the split loop for a
Splits(a) == Analyzing(a) /\ ~use_empty(A(a)) /\ AnalyzeAlloca(a).ret
\* what C18 says of the step that splits a
SplitStepOf(a) ==
  LET n == Len(allocas)
      new(f) == n + Rank(a, f)
  IN /\ Len(allocas') = n + Cardinality(FieldsUsed(a))
     /\ \A f \in FieldsUsed(a) :
          /\ allocas'[new(f)] = [ty |-> FieldType(allocas[a].ty, f), st |-> "live"]
          /\ getType(A(new(f)))'.n = getType(A(a)).n
     /\ \A g \in GepUsers(a) :
          /\ Len(insts[g].idx) >= 2 /\ insts[g].idx[2] \in FieldsUsed(a)
          /\ \A u \in Users(V(g)) :
               /\ insts[u].ptr = V(g) => insts'[u].ptr = A(new(insts[g].idx[2]))
               /\ insts[u].val = V(g) => insts'[u].val = A(new(insts[g].idx[2]))
     /\ TempWorklist' = TempWorklist \o [k \in 1..Cardinality(FieldsUsed(a)) |-> n + k]
     /\ \A k \in (n + 1)..Len(allocas') : Count(TempWorklist', k) = 1
\* C18: a call of AnalyzeAlloca that splits a creates one location per
\* constant field index found in the geps on a, in ascending order of the
\* index, each of the element type of the sequence or of the type of the
\* struct at that index, in the address space of a; every use of a gep with
\* that index is redirected to it; and the new locations are appended, each
\* once, to the list of the next round.
C18_SplitStep == [][\A a \in DOMAIN allocas : Splits(a) => SplitStepOf(a)]_vars

\* the instruction i uses the live location a at a's allocated type
AccessTyped(i, a) ==
  /\ (insts[i].ptr = A(a) /\ insts[i].op \in {"load", "store"}) => insts[i].ty = allocas[a].ty
  /\ (insts[i].ptr = A(a) /\ insts[i].op = "gep") =>
       insts[i].ty = GepType(allocas[a].ty, insts[i].idx, 2)
  /\ (insts[i].val = A(a) /\ insts[i].op = "store") => insts[i].ty = PtrTo(allocas[a].ty)
\* C19: in every state every load, store and gep that uses a live location
\* uses it at the location's allocated type; so after a split every use
\* redirected to a new location finds there the type it had from the gep.
C19_TypeConsistency ==
  \A a \in DOMAIN allocas : IsLive(a) =>
    \A i \in DOMAIN insts : insts[i].live => AccessTyped(i, a)

\* a gep on a, or on an address derived from a, has an index that is no constant
HasNonConstIndex(a) ==
  \E g \in DOMAIN insts :
    /\ insts[g].live /\ insts[g].op = "gep"
    /\ insts[g].ptr \in Derived(a)
    /\ \E k \in DOMAIN insts[g].idx : insts[g].idx[k] = NonConst
\* C20: isPromotable accepts a location that waits in Worklist only if every
\* index of every gep on it, or on an address derived from it, is a
\* constant; and AnalyzeAlloca does not split a location that has a gep with
\* a non-constant index.
C20_ConstantIndicesOnly ==
  /\ [](\A a \in DOMAIN allocas :
          (pc = "Splitting" /\ a \in Range(Worklist) /\ isPromotable(A(a)) = "true") =>
            ~HasNonConstIndex(a))
  /\ [][\A a \in DOMAIN allocas :
          (Analyzing(a) /\ HasNonConstIndex(a)) => allocas' = allocas]_vars

(***************************************************************************)
(* The list of the next round.                                             *)
(***************************************************************************)
\* the calls of AnalyzeAlloca before the round that is running
RoundStart == IF roundLog = <<>> THEN 0 ELSE Last(roundLog).processed
\* the allocas popped from Worklist in the round that is running
ProcessedInRound == {analyzed[i] : i \in (RoundStart + 1)..Len(analyzed)}
\* how many allocas round k popped from Worklist
ProcessedIn(k) == roundLog[k].processed - (IF k = 1 THEN 0 ELSE roundLog[k - 1].processed)
DepthsOf(S) == {Depth(allocas[a].ty) : a \in S}

\* C21 as claimed: the list a round hands to the next round (TempWorklist
\* without the promoted locations) is empty or strictly shorter than the
\* list of the locations the round processed.
C21_NextShorter ==
  \A k \in DOMAIN roundLog : roundLog[k].next = 0 \/ roundLog[k].next < ProcessedIn(k)
\* C21 as amended: every location a round hands to the next round was
\* created in this round out of a location this round processed, is live
\* and was not promoted, and its type is nested strictly inside its
\* parent's; the largest nesting depth in the list of the next round is
\* strictly smaller than the largest among the locations processed.
C21_NextSmaller ==
  [][pc = "Promoting" =>
       /\ \A a \in Range(Worklist') :
            /\ origin[a].parent \in ProcessedInRound
            /\ allocas'[a].st = "live"
            /\ a \notin Range(AllocaList)
            /\ Depth(allocas[a].ty) < Depth(allocas[origin[a].parent].ty)
       /\ Worklist' # <<>> =>
            SetMax(DepthsOf(Range(Worklist'))) < SetMax(DepthsOf(ProcessedInRound))]_vars
\* a round that processed one location has handed two to the next round
C21_Witness ==
  /\ pc = "Done"
  /\ \E k \in DOMAIN roundLog : ProcessedIn(k) = 1 /\ roundLog[k].next = 2

(***************************************************************************)
(* The measure of the loop of RunOnFunction.                               *)
(***************************************************************************)
\* the allocas of the input function
Originals == {a \in DOMAIN allocas : origin[a].parent = 0}
\* the largest nesting depth among them
MaxDepth == SetMax(DepthsOf(Originals))
\* the number of the round that is running (the rounds are counted from 1)
RoundNo == Len(roundLog) + 1

\* C22: the type of every location the Splitter created is nested strictly
\* inside the type of its parent; a location created in round n has nesting
\* depth at most D - n, D the largest nesting depth among the locations of
\* the input function; and RunOnFunction performs at most D + 1 rounds.
C22_WellFounded ==
  /\ [](/\ \A a \in DOMAIN allocas \ Originals :
             Depth(allocas[a].ty) < Depth(allocas[origin[a].parent].ty)
        /\ Len(roundLog) <= MaxDepth + 1
        /\ pc \in {"Splitting", "Promoting"} => RoundNo <= MaxDepth + 1)
  /\ [][\A a \in DOMAIN allocas' \ DOMAIN allocas :
          Depth(allocas'[a].ty) <= MaxDepth - RoundNo]_vars
\* a function whose deepest location has depth 2 or more was split in two
\* rounds and took D + 1 rounds
C22_Witness ==
  /\ pc = "Done"
  /\ MaxDepth >= 2
  /\ Len(roundLog) = MaxDepth + 1
  /\ \E a \in DOMAIN allocas \ Originals : origin[a].parent \notin Originals

(***************************************************************************)
(* References to erased and promoted allocas.                              *)
(***************************************************************************)
\* the live instructions with alloca a among their operands
RefersTo(a) == {i \in DOMAIN insts : insts[i].live /\ A(a) \in {insts[i].ptr, insts[i].val}}
\* the allocas the Promotion Filter is about to test (lines 348-358)
ToBeFiltered == Range(TryPromotelist) \cup Range(TempWorklist)

\* C23: no live instruction has an erased location as an operand; the
\* location popped from Worklist, the locations tested by the Promotion
\* Filter and the locations given to PromoteMemToReg are live, neither
\* erased nor promoted before; and AnalyzeAlloca is called at most once on
\* a location in a run.
C23_NoDangling ==
  /\ \A a \in DOMAIN allocas : allocas[a].st = "erased" => RefersTo(a) = {}
  /\ (pc = "Splitting" /\ Worklist # <<>>) => IsLive(Last(Worklist))
  /\ (pc = "Splitting" /\ Worklist = <<>>) => \A a \in ToBeFiltered : IsLive(a)
  /\ pc = "Promoting" => \A a \in Range(AllocaList) : IsLive(a)
  /\ NoDuplicates(analyzed)
\* a location that had uses was erased and its geps now start from undef,
\* another was promoted, and a later round has analysed a new location
C23_Witness ==
  /\ \E a \in Originals :
       /\ allocas[a].st = "erased"
       /\ \E i \in DOMAIN insts : insts[i].live /\ insts0[i].ptr = A(a) /\ insts[i].ptr = Undef
  /\ \E a \in DOMAIN allocas : allocas[a].st = "promoted"
  /\ \E k \in DOMAIN analyzed : analyzed[k] \notin Originals

(***************************************************************************)
(* The effect of an analysis that returns false.                           *)
(***************************************************************************)
\* AnalyzeAlloca is called on the last location of Worklist and returns false
ReturnsFalse ==
  /\ pc = "Splitting"
  /\ Worklist # <<>>
  /\ pc' = "Splitting"
  /\ ~AnalyzeAlloca(Last(Worklist)).ret

\* C24: a call of AnalyzeAlloca that returns false creates no location,
\* erases none, rewires no use and changes neither statistic nor Changed;
\* it changes at most TryPromotelist, by appending the one location it was
\* called on.
C24_DeclinedFrame ==
  [][ReturnsFalse =>
       /\ UNCHANGED <<allocas, insts, origin, TempWorklist, NumReplaced, NumPromoted, Changed,
                      AllocaList>>
       /\ Worklist' = SubSeq(Worklist, 1, Len(Worklist) - 1)
       /\ TryPromotelist' \in {TryPromotelist, Append(TryPromotelist, Last(Worklist))}]_vars
\* in one round an oversized array in use was analysed and put in no list,
\* another location was analysed and put in TryPromotelist, and the
\* function is as it was
C24_Witness ==
  /\ pc = "Splitting"
  /\ \E a \in Range(analyzed) : OversizedInUse(a) /\ IsLive(a) /\ a \notin Range(TryPromotelist)
  /\ \E a \in Range(analyzed) : a \in Range(TryPromotelist)
  /\ insts = insts0
  /\ NumReplaced = 0
====
